---- MODULE Spec2Model ----
(***************************************************************************)
(* Model of the Solana program of the floating-point protocol              *)
(* (src/solana/src): the instruction handlers of processor.rs acting on    *)
(* the account records of state.rs.                                        *)
(*                                                                         *)
(* u64 quantities (token amounts and the ProtocolState counters) range up  *)
(* to 2^64-1, beyond the integers of the model checker, so they are kept   *)
(* as numerals in base 10^4: a sequence of limbs, least significant first, *)
(* without leading zero limbs (zero is the empty sequence).  Timestamps    *)
(* (i64) and fee rates (u16) stay plain integers.                          *)
(***************************************************************************)
EXTENDS Integers, Sequences, FiniteSets

\* ------------------------------------------------------------------------
\* Arithmetic on u64 / u128 numerals
\* ------------------------------------------------------------------------
Base == 10^4

Max(a, b) == IF a >= b THEN a ELSE b

Limb(x, i) == IF i <= Len(x) THEN x[i] ELSE 0

RECURSIVE Trim(_)
Trim(x) ==
    IF x = <<>> THEN x
    ELSE IF x[Len(x)] = 0 THEN Trim(SubSeq(x, 1, Len(x) - 1))
    ELSE x

\* The numeral of a natural number small enough to be a plain integer.
RECURSIVE Num(_)
Num(n) == IF n = 0 THEN <<>> ELSE <<n % Base>> \o Num(n \div Base)

RECURSIVE AddFrom(_, _, _, _)
AddFrom(x, y, i, c) ==
    IF i > Max(Len(x), Len(y))
    THEN (IF c = 0 THEN <<>> ELSE <<c>>)
    ELSE LET s == Limb(x, i) + Limb(y, i) + c
         IN  <<s % Base>> \o AddFrom(x, y, i + 1, s \div Base)

Add(x, y) == AddFrom(x, y, 1, 0)

RECURSIVE CmpFrom(_, _, _)
CmpFrom(x, y, i) ==
    IF i = 0 THEN 0
    ELSE IF x[i] # y[i] THEN (IF x[i] < y[i] THEN -1 ELSE 1)
    ELSE CmpFrom(x, y, i - 1)

Cmp(x, y) ==
    IF Len(x) # Len(y) THEN (IF Len(x) < Len(y) THEN -1 ELSE 1)
    ELSE CmpFrom(x, y, Len(x))

Lt(x, y) == Cmp(x, y) < 0
Leq(x, y) == Cmp(x, y) <= 0
Gt(x, y) == Cmp(x, y) > 0

\* x - y for x >= y
RECURSIVE SubFrom(_, _, _, _)
SubFrom(x, y, i, b) ==
    IF i > Len(x) THEN <<>>
    ELSE LET d == x[i] - Limb(y, i) - b
         IN  <<IF d < 0 THEN d + Base ELSE d>>
                 \o SubFrom(x, y, i + 1, IF d < 0 THEN 1 ELSE 0)

Sub(x, y) == Trim(SubFrom(x, y, 1, 0))

\* x times one limb k < Base
RECURSIVE MulLimbFrom(_, _, _, _)
MulLimbFrom(x, k, i, c) ==
    IF i > Len(x)
    THEN (IF c = 0 THEN <<>> ELSE <<c>>)
    ELSE LET p == x[i] * k + c
         IN  <<p % Base>> \o MulLimbFrom(x, k, i + 1, p \div Base)

Shl(x, n) == IF x = <<>> THEN x ELSE [i \in 1..n |-> 0] \o x

RECURSIVE MulFrom(_, _, _)
MulFrom(x, y, j) ==
    IF j > Len(y) THEN <<>>
    ELSE Add(Shl(Trim(MulLimbFrom(x, y[j], 1, 0)), j - 1), MulFrom(x, y, j + 1))

Mul(x, y) == MulFrom(x, y, 1)

\* floor(x / k) for a plain integer 0 < k <= Base
RECURSIVE DivSmallFrom(_, _, _, _)
DivSmallFrom(x, k, i, r) ==
    IF i = 0 THEN <<>>
    ELSE LET cur == r * Base + x[i]
         IN  DivSmallFrom(x, k, i - 1, cur % k) \o <<cur \div k>>

DivSmall(x, k) == Trim(DivSmallFrom(x, k, Len(x), 0))

\* u64::MAX = 18446744073709551615
U64_MAX == <<1615, 955, 737, 6744, 1844>>

\* `x as u64` of a u128 value: x mod 2^64
RECURSIVE AsU64(_)
AsU64(x) == IF Leq(x, U64_MAX) THEN x ELSE AsU64(Sub(x, Add(U64_MAX, Num(1))))

\* Option::None of an Option<u64>: a sequence that is no numeral
None == <<-1>>

\* u64::checked_add, u64::checked_sub
\* As checked_add below, but wrapping around 2^64 as a plain + does in a
\* release build.
wrapping_add(a, b) ==
    IF Gt(Add(a, b), U64_MAX) THEN Sub(Add(a, b), Add(U64_MAX, Num(1)))
    ELSE Add(a, b)

checked_add(a, b) == IF Gt(Add(a, b), U64_MAX) THEN None ELSE Add(a, b)
checked_sub(a, b) == IF Lt(a, b) THEN None ELSE Sub(a, b)

\* ------------------------------------------------------------------------
\* Program constants
\* ------------------------------------------------------------------------
\* As MAX_FEE_RATE below, but with every u16 rate let through.
FeeRateUnchecked == 2^16 - 1

MAX_FEE_RATE == 500                     \* processor.rs:43
\* As MIN_DEPOSIT below, but with a digit dropped.
MinDepositShort == Num(1000000)

MIN_DEPOSIT == Num(10000000)            \* processor.rs:94
MAX_DEPOSIT == Mul(Num(100000), Num(1000000))   \* 100_000_000_000, processor.rs:94
POINT_SIZE == Num(10000000)             \* processor.rs:125, 201
LOCK_SECONDS == 12                      \* processor.rs:135
COOLDOWN == 86400                       \* processor.rs:208
BPS_DENOMINATOR == 10000                \* processor.rs:99, 253

\* ------------------------------------------------------------------------
\* The accounts and inputs a transaction can name (model bounds)
\* ------------------------------------------------------------------------
MaxCommitments == 2      \* longest list of commitments, point ids or nullifiers
MaxSteps == 3            \* successful instructions and clock ticks in a run

Users == {"alice", "bob"}
ZeroKey == "zero"        \* the all-zero Pubkey of a zero-filled account
TreasuryKey == "treasury"
MintKey == "usdt"

\* AccountInfo of the account passed as the user: its key and whether it signed.
UserInfos ==
    {[key |-> u, is_signer |-> TRUE] : u \in Users}
        \cup {[key |-> "alice", is_signer |-> FALSE]}

PointAccts == {"p1", "p2"}
RequestAccts == {"r1"}

\* The account passed as protocol_state_info is the caller's choice and no
\* handler checks its address or owner: "state" is the program's own
\* ProtocolState account, "crafted" an account of the caller's making.
ProtoAccts == {"state", "crafted"}

Min(a, b) == IF a <= b THEN a ELSE b

\* The lists an instruction carries: the first k elements of a fixed list,
\* k <= MaxCommitments.
Prefixes(l) == {SubSeq(l, 1, k) : k \in 0..Min(Len(l), MaxCommitments)}

Range(l) == {l[i] : i \in 1..Len(l)}

CommitmentLists == Prefixes(<<"c1", "c2", "c3">>)
PointIdLists == Prefixes(<<"p1", "p2">>)
NullifierLists == Prefixes(<<"n1", "n2">>)
NullifierVals == {"n1", "n2"}

\* The opaque proof and ring-signature bytes of a PrivacyPayment: bytes the
\* verifiers would accept and bytes they would reject.
Proofs == {"proof", "rejected_proof"}
RingSignatures == {"ring_signature", "rejected_ring_signature"}

Amounts ==
    { Num(9999999), Num(10000000), Num(20000000), Add(MAX_DEPOSIT, Num(1)) }

RatePairs == { <<100, 100>>, <<500, 0>>, <<501, 100>>, <<100, 501>> }

\* The instants the clock sysvar is sampled at.
Times == {0, COOLDOWN - 1, COOLDOWN}

\* ------------------------------------------------------------------------
\* Account records (state.rs); a fresh account is zero-filled
\* ------------------------------------------------------------------------
ZeroProtocolState ==
    [ is_initialized |-> FALSE, authority |-> ZeroKey, treasury |-> ZeroKey,
      usdt_mint |-> ZeroKey,
      total_deposited |-> <<>>, total_withdrawn |-> <<>>,
      total_fees |-> <<>>, total_points |-> <<>>,
      deposit_fee_rate |-> 0, withdrawal_fee_rate |-> 0,
      is_paused |-> FALSE ]

ZeroFloatingPoint ==
    [ is_initialized |-> FALSE, commitment |-> ZeroKey, created_at |-> 0,
      mass |-> <<>>, is_active |-> FALSE, creator |-> ZeroKey,
      locked_until |-> 0 ]

ZeroWithdrawalRequest ==
    [ is_initialized |-> FALSE, requester |-> ZeroKey, amount |-> <<>>,
      request_time |-> 0, unlock_time |-> 0,
      completed |-> FALSE, cancelled |-> FALSE ]

ZeroNullifierSet ==
    [ is_initialized |-> FALSE, nullifier |-> ZeroKey, used |-> FALSE,
      timestamp |-> 0 ]

\* What the caller's own account holds when passed as the protocol state.
CraftedState ==
    [ ZeroProtocolState EXCEPT !.is_initialized = TRUE, !.authority = "bob",
                               !.is_paused = TRUE ]

Ok == "Ok"

VARIABLES
    protocol_state,   \* the program's ProtocolState account
    points,           \* PointAccts -> FloatingPoint
    requests,         \* RequestAccts -> WithdrawalRequest
    nullifier_set,    \* NullifierVals -> NullifierSet
    token,            \* external token ledger: balance of each token account
    clock,            \* Clock sysvar: unix_timestamp
    spent,            \* history: the nullifiers that a successful
                      \* PrivacyPayment or RequestWithdrawal has named
    steps             \* history: successful instructions and clock ticks so far

vars == <<protocol_state, points, requests, nullifier_set, token, clock, spent,
          steps>>

\* ------------------------------------------------------------------------
\* The handlers (processor.rs).  A handler works on the account buffers it
\* is passed, st = [ps, points, requests, token], and returns its
\* ProgramResult together with the buffers as they are at the return.
\* ------------------------------------------------------------------------
Return(e, st) ==
    [err |-> e, ps |-> st.ps, points |-> st.points, requests |-> st.requests,
     token |-> st.token]

\* Processor::process_initialize
process_initialize(st, authority_info, deposit_fee_rate, withdrawal_fee_rate) ==
    IF ~authority_info.is_signer
    THEN Return("MissingRequiredSignature", st)
    ELSE IF deposit_fee_rate > MAX_FEE_RATE \/ withdrawal_fee_rate > MAX_FEE_RATE
    THEN Return("InvalidAmount", st)
    ELSE Return(Ok,
           [st EXCEPT !.ps =
              [ is_initialized |-> TRUE, authority |-> authority_info.key,
                treasury |-> TreasuryKey, usdt_mint |-> MintKey,
                total_deposited |-> <<>>, total_withdrawn |-> <<>>,
                total_fees |-> <<>>, total_points |-> <<>>,
                deposit_fee_rate |-> deposit_fee_rate,
                withdrawal_fee_rate |-> withdrawal_fee_rate,
                is_paused |-> FALSE ]])

\* (amount as u128 * rate as u128 / 10000) as u64
Fee(amount, rate) == AsU64(DivSmall(Mul(amount, Num(rate)), BPS_DENOMINATOR))

\* amount / 10_000_000
NumPoints(amount) == DivSmall(DivSmall(amount, 10^4), 10^3)

\* spl_token transfer of `amount` from `src` to `dst`, which fails on
\* insufficient funds
HasFunds(tok, src, amount) == Leq(amount, tok[src])

Transfer(tok, src, dst, amount) ==
    [tok EXCEPT ![src] = Sub(tok[src], amount),
                ![dst] = Add(tok[dst], amount)]

NewFloatingPoint(commitment, creator, now) ==
    [ is_initialized |-> TRUE, commitment |-> commitment, created_at |-> now,
      mass |-> Num(1), is_active |-> TRUE, creator |-> creator,
      locked_until |-> now + LOCK_SECONDS ]

\* As WriteFloatingPoints below, but with each commitment serialized into an
\* account of its own.
RECURSIVE WriteFloatingPointsEach(_, _, _, _, _)
WriteFloatingPointsEach(pts, point_info, commitments, creator, now) ==
    IF commitments = <<>> THEN pts
    ELSE WriteFloatingPointsEach(
           [pts EXCEPT ![point_info] = NewFloatingPoint(Head(commitments), creator, now)],
           CHOOSE q \in PointAccts : q # point_info,
           Tail(commitments), creator, now)

\* The loop of process_deposit: every commitment is serialized into the one
\* account point_info, each over the one before.
RECURSIVE WriteFloatingPoints(_, _, _, _, _)
WriteFloatingPoints(pts, point_info, commitments, creator, now) ==
    IF commitments = <<>> THEN pts
    ELSE WriteFloatingPoints(
           [pts EXCEPT ![point_info] = NewFloatingPoint(Head(commitments), creator, now)],
           point_info, Tail(commitments), creator, now)

\* Processor::process_deposit
process_deposit(st, user_info, amount, commitments, point_info, now) ==
    IF ~user_info.is_signer THEN Return("MissingRequiredSignature", st)
    ELSE IF st.ps.is_paused THEN Return("Unauthorized", st)
    ELSE IF Lt(amount, MIN_DEPOSIT) \/ Gt(amount, MAX_DEPOSIT)
    THEN Return("InvalidAmount", st)
    ELSE
    LET fee == Fee(amount, st.ps.deposit_fee_rate)
        net_amount == checked_sub(amount, fee)
    IN
    IF net_amount = None THEN Return("InvalidAmount", st)
    ELSE
    IF ~HasFunds(st.token, user_info.key, net_amount)
    THEN Return("InsufficientFunds", st)
    ELSE
    LET num_points == NumPoints(amount)
        st1 == [st EXCEPT !.token = Transfer(st.token, user_info.key,
                                             TreasuryKey, net_amount),
                          !.points = WriteFloatingPoints(st.points, point_info,
                                        commitments, user_info.key, now)]
        total_deposited == checked_add(st.ps.total_deposited, amount)
        total_points == checked_add(st.ps.total_points, num_points)
        total_fees == checked_add(st.ps.total_fees, fee)
    IN
    IF total_deposited = None \/ total_points = None \/ total_fees = None
    THEN Return("InvalidAmount", st1)
    ELSE Return(Ok,
           [st1 EXCEPT !.ps = [st.ps EXCEPT !.total_deposited = total_deposited,
                                            !.total_points = total_points,
                                            !.total_fees = total_fees]])

\* Processor::process_privacy_payment: the handler is a stub that logs and
\* returns Ok.
process_privacy_payment(st, input_nullifiers, output_commitments, proof, ring_signature) ==
    Return(Ok, st)

\* unlock_time of a request made at `now`: 24 hours later
UnlockTime(now) == now + COOLDOWN

\* Processor::process_request_withdrawal
process_request_withdrawal(st, user_info, point_ids, nullifiers, withdrawal_request_info, now) ==
    IF ~user_info.is_signer THEN Return("MissingRequiredSignature", st)
    ELSE
    LET amount == AsU64(Mul(Num(Len(point_ids)), POINT_SIZE))
        withdrawal_request ==
            [ is_initialized |-> TRUE, requester |-> user_info.key,
              amount |-> amount, request_time |-> now,
              unlock_time |-> UnlockTime(now),
              completed |-> FALSE, cancelled |-> FALSE ]
    IN Return(Ok, [st EXCEPT !.requests[withdrawal_request_info] = withdrawal_request])

\* As NotUnlocked below, but with the boundary excluded.
NotUnlockedInclusive(now, withdrawal_request) ==
    now <= withdrawal_request.unlock_time

\* "Validate withdrawal is unlocked"
NotUnlocked(now, withdrawal_request) == now < withdrawal_request.unlock_time

\* A request that was completed or cancelled
Terminal(withdrawal_request) ==
    withdrawal_request.completed \/ withdrawal_request.cancelled

\* Processor::process_complete_withdrawal
process_complete_withdrawal(st, user_info, withdrawal_request_info, now) ==
    LET withdrawal_request == st.requests[withdrawal_request_info] IN
    IF ~user_info.is_signer THEN Return("MissingRequiredSignature", st)
    ELSE IF NotUnlocked(now, withdrawal_request)
    THEN Return("WithdrawalNotReady", st)
    ELSE IF Terminal(withdrawal_request)
    THEN Return("Unauthorized", st)
    ELSE
    LET fee == Fee(withdrawal_request.amount, st.ps.withdrawal_fee_rate)
        net_amount == checked_sub(withdrawal_request.amount, fee)
    IN
    IF net_amount = None THEN Return("InvalidAmount", st)
    ELSE
    LET st1 == [st EXCEPT !.requests[withdrawal_request_info].completed = TRUE]
        total_withdrawn == checked_add(st.ps.total_withdrawn, withdrawal_request.amount)
    IN
    IF total_withdrawn = None THEN Return("InvalidAmount", st1)
    ELSE Return(Ok, [st1 EXCEPT !.ps.total_withdrawn = total_withdrawn])

\* process_instruction, the arm `_`: CancelWithdrawal, UpdateFees and
\* SetPaused are not implemented.
process_not_implemented(st) == Return("InvalidInstruction", st)

\* ------------------------------------------------------------------------
\* The host: it hands an instruction the accounts the transaction names and
\* keeps what the handler wrote only if the instruction returns Ok; an
\* instruction that changed the data of an account the program does not own
\* fails as a whole.
\* ------------------------------------------------------------------------
Load(protocol_state_info) ==
    [ ps |-> IF protocol_state_info = "state" THEN protocol_state ELSE CraftedState,
      points |-> points, requests |-> requests, token |-> token ]

\* As Outcome below, but with what the handler wrote kept whatever it returns.
OutcomeKeepsWrites(protocol_state_info, r) ==
    [ err |-> r.err,
      protocol_state |-> IF protocol_state_info = "state" THEN r.ps
                         ELSE protocol_state,
      points |-> r.points, requests |-> r.requests, token |-> r.token ]

\* The outcome of an instruction: its result and the records as persisted.
Outcome(protocol_state_info, r) ==
    LET err == IF r.err = Ok /\ protocol_state_info = "crafted" /\ r.ps # CraftedState
               THEN "ExternalAccountDataModified"
               ELSE r.err
    IN  IF err = Ok
        THEN [ err |-> Ok,
               protocol_state |-> IF protocol_state_info = "state" THEN r.ps
                                  ELSE protocol_state,
               points |-> r.points, requests |-> r.requests, token |-> r.token ]
        ELSE [ err |-> err, protocol_state |-> protocol_state, points |-> points,
               requests |-> requests, token |-> token ]

Persist(o) ==
    /\ steps < MaxSteps
    /\ steps' = IF o.err = Ok THEN steps + 1 ELSE steps
    /\ protocol_state' = o.protocol_state
    /\ points' = o.points
    /\ requests' = o.requests
    /\ token' = o.token

\* ------------------------------------------------------------------------
\* The instructions (process_instruction): the outcome of each in the
\* current state, and the step that takes it
\* ------------------------------------------------------------------------
InitializeOutcome(authority_info, rates, protocol_state_info) ==
    Outcome(protocol_state_info,
            process_initialize(Load(protocol_state_info), authority_info,
                               rates[1], rates[2]))

DepositOutcome(user_info, amount, commitments, protocol_state_info, point_info) ==
    Outcome(protocol_state_info,
            process_deposit(Load(protocol_state_info), user_info, amount,
                            commitments, point_info, clock))

PrivacyPaymentOutcome(input_nullifiers, output_commitments, proof, ring_signature, protocol_state_info) ==
    Outcome(protocol_state_info,
            process_privacy_payment(Load(protocol_state_info), input_nullifiers,
                                    output_commitments, proof, ring_signature))

RequestWithdrawalOutcome(user_info, point_ids, nullifiers, protocol_state_info, withdrawal_request_info) ==
    Outcome(protocol_state_info,
            process_request_withdrawal(Load(protocol_state_info), user_info,
                point_ids, nullifiers, withdrawal_request_info, clock))

CompleteWithdrawalOutcome(user_info, protocol_state_info, withdrawal_request_info) ==
    Outcome(protocol_state_info,
            process_complete_withdrawal(Load(protocol_state_info), user_info,
                withdrawal_request_info, clock))

CancelWithdrawalOutcome(user_info, withdrawal_request_info, permanent) ==
    Outcome("state", process_not_implemented(Load("state")))

UpdateFeesOutcome(authority_info, rates) ==
    Outcome("state", process_not_implemented(Load("state")))

SetPausedOutcome(authority_info, paused) ==
    Outcome("state", process_not_implemented(Load("state")))

Initialize(authority_info, rates, protocol_state_info) ==
    /\ Persist(InitializeOutcome(authority_info, rates, protocol_state_info))
    /\ UNCHANGED <<nullifier_set, clock, spent>>

Deposit(user_info, amount, commitments, protocol_state_info, point_info) ==
    /\ Persist(DepositOutcome(user_info, amount, commitments,
                              protocol_state_info, point_info))
    /\ UNCHANGED <<nullifier_set, clock, spent>>

PrivacyPayment(input_nullifiers, output_commitments, proof, ring_signature, protocol_state_info) ==
    LET o == PrivacyPaymentOutcome(input_nullifiers, output_commitments,
                                   proof, ring_signature, protocol_state_info)
    IN  /\ Persist(o)
        /\ spent' = IF o.err = Ok THEN spent \cup Range(input_nullifiers) ELSE spent
        /\ UNCHANGED <<nullifier_set, clock>>

RequestWithdrawal(user_info, point_ids, nullifiers, protocol_state_info, withdrawal_request_info) ==
    LET o == RequestWithdrawalOutcome(user_info, point_ids, nullifiers,
                 protocol_state_info, withdrawal_request_info)
    IN  /\ Persist(o)
        /\ spent' = IF o.err = Ok THEN spent \cup Range(nullifiers) ELSE spent
        /\ UNCHANGED <<nullifier_set, clock>>

CompleteWithdrawal(user_info, protocol_state_info, withdrawal_request_info) ==
    /\ Persist(CompleteWithdrawalOutcome(user_info, protocol_state_info,
                                         withdrawal_request_info))
    /\ UNCHANGED <<nullifier_set, clock, spent>>

CancelWithdrawal(user_info, withdrawal_request_info, permanent) ==
    /\ Persist(CancelWithdrawalOutcome(user_info, withdrawal_request_info, permanent))
    /\ UNCHANGED <<nullifier_set, clock, spent>>

UpdateFees(authority_info, rates) ==
    /\ Persist(UpdateFeesOutcome(authority_info, rates))
    /\ UNCHANGED <<nullifier_set, clock, spent>>

SetPaused(authority_info, paused) ==
    /\ Persist(SetPausedOutcome(authority_info, paused))
    /\ UNCHANGED <<nullifier_set, clock, spent>>

\* The clock sysvar moves on between transactions.
Tick(t) ==
    /\ steps < MaxSteps
    /\ t > clock
    /\ clock' = t
    /\ steps' = steps + 1
    /\ UNCHANGED <<protocol_state, points, requests, nullifier_set, token, spent>>

InitialBalance ==
    [a \in Users \cup {TreasuryKey} |->
        IF a = "alice" THEN Num(20000000) ELSE <<>>]

Init ==
    /\ protocol_state = ZeroProtocolState
    /\ points = [p \in PointAccts |-> ZeroFloatingPoint]
    /\ requests = [q \in RequestAccts |-> ZeroWithdrawalRequest]
    /\ nullifier_set = [n \in NullifierVals |-> ZeroNullifierSet]
    /\ token = InitialBalance
    /\ clock = 0
    /\ spent = {}
    /\ steps = 0

Next ==
    \/ \E u \in UserInfos, rates \in RatePairs, ps \in ProtoAccts :
          Initialize(u, rates, ps)
    \/ \E u \in UserInfos, a \in Amounts, cs \in CommitmentLists,
          ps \in ProtoAccts, p \in PointAccts :
          Deposit(u, a, cs, ps, p)
    \/ \E ns \in NullifierLists, cs \in CommitmentLists, proof \in Proofs,
          ring_signature \in RingSignatures, ps \in ProtoAccts :
          PrivacyPayment(ns, cs, proof, ring_signature, ps)
    \/ \E u \in UserInfos, ids \in PointIdLists, ns \in NullifierLists,
          ps \in ProtoAccts, q \in RequestAccts :
          RequestWithdrawal(u, ids, ns, ps, q)
    \/ \E u \in UserInfos, ps \in ProtoAccts, q \in RequestAccts :
          CompleteWithdrawal(u, ps, q)
    \/ \E u \in UserInfos, q \in RequestAccts, permanent \in BOOLEAN :
          CancelWithdrawal(u, q, permanent)
    \/ \E u \in UserInfos, rates \in RatePairs : UpdateFees(u, rates)
    \/ \E u \in UserInfos, paused \in BOOLEAN : SetPaused(u, paused)
    \/ \E t \in Times : Tick(t)

Spec == Init /\ [][Next]_vars

\* A ledger late in its life: 184_467_440 deposits of 100_000_000_000 and
\* 7_369 of 10_000_000 at a deposit fee of 100 basis points, and as much
\* withdrawn through completed requests, have brought total_deposited and
\* total_withdrawn to 18_446_744_073_690_000_000, within 19_551_615 of
\* u64::MAX.
HighPoints == <<7369, 7440, 8446, 1>>
HighDeposited == Mul(HighPoints, POINT_SIZE)
HighFees == DivSmall(HighDeposited, 100)

HighProtocolState ==
    [ is_initialized |-> TRUE, authority |-> "alice",
      treasury |-> TreasuryKey, usdt_mint |-> MintKey,
      total_deposited |-> HighDeposited, total_withdrawn |-> HighDeposited,
      total_fees |-> HighFees, total_points |-> HighPoints,
      deposit_fee_rate |-> 100, withdrawal_fee_rate |-> 100,
      is_paused |-> FALSE ]

InitHigh ==
    /\ protocol_state = HighProtocolState
    /\ points = [p \in PointAccts |-> ZeroFloatingPoint]
    /\ requests = [q \in RequestAccts |-> ZeroWithdrawalRequest]
    /\ nullifier_set = [n \in NullifierVals |-> ZeroNullifierSet]
    /\ token = [InitialBalance EXCEPT ![TreasuryKey] = Sub(HighDeposited, HighFees)]
    /\ clock = 0
    /\ spent = {}
    /\ steps = 0

SpecHigh == InitHigh /\ [][Next]_vars

\* ------------------------------------------------------------------------
\* Properties
\* ------------------------------------------------------------------------
Signers == {u \in UserInfos : u.is_signer}

\* The run goes on from this state: Persist takes a further instruction.
InRun == steps < MaxSteps

\* An outcome that left every persisted record as it was
Untouched(o) ==
    /\ o.protocol_state = protocol_state
    /\ o.points = points
    /\ o.requests = requests
    /\ o.token = token

RECURSIVE SumMass(_, _, _)
SumMass(pts, S, active_only) ==
    IF S = {} THEN <<>>
    ELSE LET p == CHOOSE x \in S : TRUE
         IN  Add(IF active_only => pts[p].is_active THEN pts[p].mass ELSE <<>>,
                 SumMass(pts, S \ {p}, active_only))

\* The mass of the active commitment records, and of all commitment records
ActiveMass(pts) == SumMass(pts, PointAccts, TRUE)
StoredMass(pts) == SumMass(pts, PointAccts, FALSE)

\* The mass that left through completed (or cancelled) withdrawals: a request
\* of n points has amount n * POINT_SIZE
RECURSIVE SumWithdrawn(_, _)
SumWithdrawn(reqs, S) ==
    IF S = {} THEN <<>>
    ELSE LET q == CHOOSE x \in S : TRUE
         IN  Add(IF Terminal(reqs[q]) THEN NumPoints(reqs[q].amount) ELSE <<>>,
                 SumWithdrawn(reqs, S \ {q}))

Conserved(ps, pts, reqs) ==
    Add(ActiveMass(pts), SumWithdrawn(reqs, RequestAccts)) = ps.total_points

\* C1 (as claimed): no double-spend.  Once a successful PrivacyPayment or
\* RequestWithdrawal has named a nullifier, every PrivacyPayment and every
\* RequestWithdrawal that names it again fails with NullifierAlreadyUsed.
C1_NoDoubleSpend ==
    \A ns \in NullifierLists :
        Range(ns) \cap spent # {} =>
            /\ \A cs \in CommitmentLists :
                 PrivacyPaymentOutcome(ns, cs, "proof", "ring_signature", "state").err
                    = "NullifierAlreadyUsed"
            /\ \A u \in Signers, ids \in PointIdLists, q \in RequestAccts :
                 RequestWithdrawalOutcome(u, ids, ns, "state", q).err
                    = "NullifierAlreadyUsed"

\* C2 (as claimed): conservation.  After Initialize, a Deposit or a
\* PrivacyPayment made in a state where the mass of the active commitment
\* records plus the mass of the completed withdrawals equals total_points
\* leaves a state where they are equal again.
C2_Conservation ==
    (protocol_state.is_initialized /\ Conserved(protocol_state, points, requests)) =>
        /\ \A u \in UserInfos, a \in Amounts, cs \in CommitmentLists, p \in PointAccts :
             LET o == DepositOutcome(u, a, cs, "state", p)
             IN  Conserved(o.protocol_state, o.points, o.requests)
        /\ \A ns \in NullifierLists, cs \in CommitmentLists :
             LET o == PrivacyPaymentOutcome(ns, cs, "proof", "ring_signature", "state")
             IN  Conserved(o.protocol_state, o.points, o.requests)

\* C3: timelock.  A request made at request_time has unlock_time =
\* request_time + 86400, and CompleteWithdrawal by a signer on a request that
\* is neither completed nor cancelled succeeds if and only if now >=
\* unlock_time (so it succeeds at now = unlock_time); before unlock_time it
\* fails with WithdrawalNotReady and leaves every record as it was.
C3_Timelock ==
    \A q \in RequestAccts :
        /\ requests[q].is_initialized =>
              requests[q].unlock_time = requests[q].request_time + 86400
        /\ \A u \in Signers :
             LET o == CompleteWithdrawalOutcome(u, "state", q)
             IN  /\ clock < requests[q].unlock_time =>
                      o.err = "WithdrawalNotReady" /\ Untouched(o)
                 /\ ( /\ ~Terminal(requests[q])
                      /\ checked_add(protocol_state.total_withdrawn,
                                     requests[q].amount) # None )
                      => (o.err = Ok <=> clock >= requests[q].unlock_time)
                 /\ o.err = Ok => o.requests[q].completed

\* A request made by RequestWithdrawal was completed at the very instant it
\* unlocked.
C3_Witness ==
    \E q \in RequestAccts :
        /\ requests[q].is_initialized
        /\ requests[q].completed
        /\ clock = requests[q].unlock_time

\* C4 (as claimed): terminal states are idempotent.  On a request that is
\* completed or cancelled, CompleteWithdrawal and CancelWithdrawal by a signer
\* fail with Unauthorized and leave every record as it was.
C4_TerminalIdempotent ==
    \A q \in RequestAccts, u \in Signers :
        (requests[q].is_initialized /\ Terminal(requests[q])) =>
            /\ LET o == CompleteWithdrawalOutcome(u, "state", q)
               IN  o.err = "Unauthorized" /\ Untouched(o)
            /\ \A permanent \in BOOLEAN :
                 LET o == CancelWithdrawalOutcome(u, q, permanent)
                 IN  o.err = "Unauthorized" /\ Untouched(o)

\* C5 (as claimed): pause gate.  When the protocol state handed to the
\* instruction has is_paused set, Deposit, PrivacyPayment and
\* RequestWithdrawal fail and leave every record as it was.
C5_PauseGate ==
    \A ps \in ProtoAccts :
        Load(ps).ps.is_paused =>
            /\ \A u \in Signers, a \in Amounts, cs \in CommitmentLists, p \in PointAccts :
                 LET o == DepositOutcome(u, a, cs, ps, p)
                 IN  o.err # Ok /\ Untouched(o)
            /\ \A ns \in NullifierLists, cs \in CommitmentLists :
                 LET o == PrivacyPaymentOutcome(ns, cs, "proof", "ring_signature", ps)
                 IN  o.err # Ok /\ Untouched(o)
            /\ \A u \in Signers, ids \in PointIdLists, ns \in NullifierLists,
                  q \in RequestAccts :
                 LET o == RequestWithdrawalOutcome(u, ids, ns, ps, q)
                 IN  o.err # Ok /\ Untouched(o)

\* C6 (as claimed): RequestWithdrawal checks the commitments it references.
\* If one of them is still locked (now < locked_until) it fails with
\* PointLocked, if one of them is not active it fails with PointNotActive,
\* and in both cases no WithdrawalRequest is created or modified.
C6_RequestChecksCommitments ==
    \A u \in Signers, ids \in PointIdLists, ns \in NullifierLists, q \in RequestAccts :
        LET o == RequestWithdrawalOutcome(u, ids, ns, "state", q)
            referenced == {p \in Range(ids) : points[p].is_initialized}
            locked == \E p \in referenced : clock < points[p].locked_until
            inactive == \E p \in referenced : ~points[p].is_active
        IN  /\ locked => o.err = "PointLocked"
            /\ (inactive /\ ~locked) => o.err = "PointNotActive"
            /\ (locked \/ inactive) => o.requests = requests

\* C7 (as claimed): a successful RequestWithdrawal leaves every commitment it
\* references with is_active = FALSE, so that no commitment backs a second
\* withdrawal.
C7_RequestDeactivates ==
    \A u \in Signers, ids \in PointIdLists, ns \in NullifierLists, q \in RequestAccts :
        LET o == RequestWithdrawalOutcome(u, ids, ns, "state", q)
        IN  o.err = Ok => \A p \in Range(ids) : ~o.points[p].is_active

\* C8 (as claimed): only the requester completes a request.  CompleteWithdrawal
\* by a signer other than the requester recorded in the request neither sets
\* completed nor increases total_withdrawn.
C8_OnlyRequesterCompletes ==
    \A u \in Signers, q \in RequestAccts :
        (requests[q].is_initialized /\ u.key # requests[q].requester) =>
            LET o == CompleteWithdrawalOutcome(u, "state", q)
            IN  /\ o.requests[q].completed = requests[q].completed
                /\ o.protocol_state.total_withdrawn = protocol_state.total_withdrawn

\* C9 (as claimed): Initialize is one-time.  On an initialized ProtocolState,
\* Initialize fails with AccountAlreadyInitialized and leaves the authority,
\* the treasury, the fee rates, the paused flag and the counters as they were.
C9_InitializeOnce ==
    protocol_state.is_initialized =>
        \A u \in Signers, rates \in RatePairs :
            (rates[1] <= MAX_FEE_RATE /\ rates[2] <= MAX_FEE_RATE) =>
                LET o == InitializeOutcome(u, rates, "state")
                IN  /\ o.err = "AccountAlreadyInitialized"
                    /\ o.protocol_state = protocol_state

\* C10: the cap of Deposit.  The mass a successful Deposit adds to the
\* commitment records never exceeds what it adds to total_points, the number
\* of points floor(amount / 10_000_000) of its amount, however many
\* commitments it supplies.
C10_DepositMassCap ==
    InRun =>
    \A u \in Signers, a \in Amounts, cs \in CommitmentLists, p \in PointAccts :
        LET o == DepositOutcome(u, a, cs, "state", p)
        IN  o.err = Ok =>
              /\ o.protocol_state.total_points
                    = Add(protocol_state.total_points, NumPoints(a))
              /\ Leq(StoredMass(o.points), Add(StoredMass(points), NumPoints(a)))
              /\ Leq(ActiveMass(o.points), Add(ActiveMass(points), NumPoints(a)))

\* A Deposit of 10_000_000 (one point) that supplied the two commitments c1
\* and c2 has succeeded: the record holds c2, the last of them.
C10_Witness ==
    /\ protocol_state.total_deposited = Num(10000000)
    /\ protocol_state.total_points = Num(1)
    /\ \E p \in PointAccts : points[p].is_initialized /\ points[p].commitment = "c2"
    /\ StoredMass(points) = Num(1)

\* The verdicts of the proof verifier and of the ring-signature verifier on
\* the bytes a PrivacyPayment carries
verifyProof(proof) == proof = "proof"
verifySignature(ring_signature) == ring_signature = "ring_signature"

\* C11 (as claimed): PrivacyPayment depends on the oracles.  With a proof the
\* proof verifier rejects it fails with InvalidProof, with a ring signature
\* the ring-signature verifier rejects it fails with InvalidRingSignature, and
\* in both cases every record is left as it was.
C11_OracleGate ==
    \A ns \in NullifierLists, cs \in CommitmentLists, proof \in Proofs,
       ring_signature \in RingSignatures :
        LET o == PrivacyPaymentOutcome(ns, cs, proof, ring_signature, "state")
        IN  /\ ~verifyProof(proof) => (o.err = "InvalidProof" /\ Untouched(o))
            /\ (verifyProof(proof) /\ ~verifySignature(ring_signature)) =>
                   (o.err = "InvalidRingSignature" /\ Untouched(o))

\* A Deposit by a signer that passes every check before the counters are
\* updated: the ledger is not paused, the amount is in range and the
\* depositor holds the net amount.
DepositAdmitted(u, a) ==
    /\ ~protocol_state.is_paused
    /\ Leq(Num(10000000), a) /\ Leq(a, MAX_DEPOSIT)
    /\ Leq(Sub(a, DivSmall(Mul(a, Num(protocol_state.deposit_fee_rate)), 10000)),
           token[u.key])

\* A CompleteWithdrawal that passes every check before the request is
\* marked: the request is unlocked and neither completed nor cancelled.
CompletionAdmitted(q) ==
    /\ clock >= requests[q].unlock_time
    /\ ~requests[q].completed /\ ~requests[q].cancelled

C13_CancelByRequester ==
    \A u \in Signers, q \in RequestAccts, permanent \in BOOLEAN :
        ( /\ requests[q].is_initialized /\ ~Terminal(requests[q])
          /\ u.key = requests[q].requester ) =>
            LET o == CancelWithdrawalOutcome(u, q, permanent)
            IN  o.err = Ok /\ o.requests[q].cancelled /\ o.token = token

\* The amounts a fee is computed of: the amounts of Deposit and the amounts a
\* WithdrawalRequest can hold, up to u64::MAX
FeeAmounts ==
    Amounts \cup {<<>>, Num(1), Num(9999), MAX_DEPOSIT, U64_MAX}
      \cup {requests[q].amount : q \in RequestAccts}

\* C14: fee bound.  In every state both configured fee rates are at most 500,
\* and for each configured rate r and every amount a the fee Deposit and
\* CompleteWithdrawal compute is floor(a * r / 10000), is at most
\* a * 500 / 10000 and leaves net = a - fee >= 0.
C14_FeeBound ==
    /\ protocol_state.deposit_fee_rate \in 0..500
    /\ protocol_state.withdrawal_fee_rate \in 0..500
    /\ \A r \in {protocol_state.deposit_fee_rate, protocol_state.withdrawal_fee_rate},
          a \in FeeAmounts :
         LET fee == Fee(a, r)
         IN  /\ fee = DivSmall(Mul(a, Num(r)), 10000)
             /\ Leq(fee, DivSmall(Mul(a, Num(500)), 10000))
             /\ Leq(fee, a)
             /\ checked_sub(a, fee) = Sub(a, fee)

\* Initialize has set the deposit fee rate to 500, the highest it admits, and
\* a Deposit of 10_000_000 has paid the fee of 500_000.
C14_Witness ==
    /\ protocol_state.is_initialized
    /\ protocol_state.deposit_fee_rate = 500
    /\ protocol_state.total_fees = Num(500000)
    /\ token[TreasuryKey] = Num(9500000)

\* C15 (as claimed): a successful Deposit leaves one commitment record for
\* each commitment value it supplies, with mass 1, active, created by the
\* depositor and locked until now + 12.
C15_DepositRecords ==
    \A u \in Signers, a \in Amounts, cs \in CommitmentLists, p \in PointAccts :
        LET o == DepositOutcome(u, a, cs, "state", p)
        IN  (protocol_state.is_initialized /\ o.err = Ok) =>
              \A i \in 1..Len(cs) :
                 \E x \in PointAccts :
                    /\ o.points[x].is_initialized
                    /\ o.points[x].commitment = cs[i]
                    /\ o.points[x].mass = Num(1)
                    /\ o.points[x].is_active
                    /\ o.points[x].creator = u.key
                    /\ o.points[x].locked_until = clock + 12

\* C16: the accounting of Deposit.  A successful Deposit by a signer has an
\* amount in [10_000_000, 100_000_000_000]; it adds the amount to
\* total_deposited, floor(amount / 10_000_000) to total_points and fee =
\* floor(amount * deposit_fee_rate / 10000) to total_fees, moves amount - fee
\* from the depositor to the treasury, and leaves total_withdrawn, the fee
\* rates, the paused flag and the authority as they were.  A Deposit with an
\* amount outside the range fails with InvalidAmount and changes nothing.
C16_DepositAccounting ==
    InRun =>
    \A u \in Signers, a \in Amounts, cs \in CommitmentLists, p \in PointAccts :
        LET o == DepositOutcome(u, a, cs, "state", p)
            in_range == Leq(Num(10000000), a)
                           /\ Leq(a, Mul(Num(100000), Num(1000000)))
            fee == DivSmall(Mul(a, Num(protocol_state.deposit_fee_rate)), 10000)
            ps == o.protocol_state
        IN  /\ ~in_range => (o.err = "InvalidAmount" /\ Untouched(o))
            /\ o.err = Ok =>
                  /\ in_range
                  /\ ps.total_deposited = Add(protocol_state.total_deposited, a)
                  /\ ps.total_points
                        = Add(protocol_state.total_points,
                              DivSmall(DivSmall(a, 10000), 1000))
                  /\ ps.total_fees = Add(protocol_state.total_fees, fee)
                  /\ o.token
                        = [token EXCEPT
                             ![u.key] = Sub(token[u.key], Sub(a, fee)),
                             ![TreasuryKey] = Add(token[TreasuryKey], Sub(a, fee))]
                  /\ ps.total_withdrawn = protocol_state.total_withdrawn
                  /\ ps.deposit_fee_rate = protocol_state.deposit_fee_rate
                  /\ ps.withdrawal_fee_rate = protocol_state.withdrawal_fee_rate
                  /\ ps.is_paused = protocol_state.is_paused
                  /\ ps.authority = protocol_state.authority

\* After Initialize(100, 100) a Deposit of 20_000_000 has succeeded: the fee
\* is 200_000, 19_800_000 are with the treasury and two points are counted.
C16_Witness ==
    /\ protocol_state.deposit_fee_rate = 100
    /\ protocol_state.total_deposited = Num(20000000)
    /\ protocol_state.total_points = Num(2)
    /\ protocol_state.total_fees = Num(200000)
    /\ token[TreasuryKey] = Num(19800000)
    /\ token["alice"] = Num(200000)

\* C17 (as claimed): a successful CompleteWithdrawal on a request of amount a
\* sets completed, adds a to total_withdrawn and moves net = a - floor(a *
\* withdrawal_fee_rate / 10000) from the treasury to the requester on the
\* token ledger.
C17_CompletionPays ==
    \A u \in Signers, q \in RequestAccts :
        LET o == CompleteWithdrawalOutcome(u, "state", q)
            a == requests[q].amount
            net == Sub(a, DivSmall(Mul(a, Num(protocol_state.withdrawal_fee_rate)),
                                   10000))
        IN  (requests[q].is_initialized /\ o.err = Ok) =>
              /\ o.requests[q].completed
              /\ o.protocol_state.total_withdrawn
                    = Add(protocol_state.total_withdrawn, a)
              /\ Leq(net, token[TreasuryKey])
              /\ o.token
                    = [[token EXCEPT ![TreasuryKey] = Sub(token[TreasuryKey], net)]
                          EXCEPT ![requests[q].requester] =
                                    Add(@, net)]

\* C18: the counters.  In every state total_fees <= total_deposited and no
\* counter exceeds u64::MAX, and every change of a counter is a checked
\* addition: a Deposit or a CompleteWithdrawal whose addition would exceed
\* u64::MAX fails, and one that succeeds leaves each counter at the exact sum.
C18_CheckedCounters ==
    /\ Leq(protocol_state.total_fees, protocol_state.total_deposited)
    /\ \A c \in {protocol_state.total_deposited, protocol_state.total_withdrawn,
                  protocol_state.total_fees, protocol_state.total_points} :
         Leq(c, U64_MAX)
    /\ InRun =>
       \A u \in Signers, a \in Amounts, cs \in CommitmentLists, p \in PointAccts :
         LET o == DepositOutcome(u, a, cs, "state", p)
             fee == DivSmall(Mul(a, Num(protocol_state.deposit_fee_rate)), 10000)
             deposited == Add(protocol_state.total_deposited, a)
             minted == Add(protocol_state.total_points,
                           DivSmall(DivSmall(a, 10000), 1000))
             fees == Add(protocol_state.total_fees, fee)
         IN  /\ (Gt(deposited, U64_MAX) \/ Gt(minted, U64_MAX) \/ Gt(fees, U64_MAX))
                   => o.err # Ok
             /\ o.err = Ok =>
                   /\ o.protocol_state.total_deposited = deposited
                   /\ o.protocol_state.total_points = minted
                   /\ o.protocol_state.total_fees = fees
    /\ InRun =>
       \A u \in Signers, q \in RequestAccts :
         LET o == CompleteWithdrawalOutcome(u, "state", q)
             withdrawn == Add(protocol_state.total_withdrawn, requests[q].amount)
         IN  /\ Gt(withdrawn, U64_MAX) => o.err # Ok
             /\ o.err = Ok => o.protocol_state.total_withdrawn = withdrawn

\* A Deposit of 10_000_000 has brought total_deposited within 9_551_615 of
\* u64::MAX, and the depositor holds enough for one more, which fails on the
\* checked addition.
C18_Witness ==
    /\ protocol_state.total_deposited = Add(HighDeposited, Num(10000000))
    /\ \E u \in Signers, cs \in CommitmentLists, p \in PointAccts :
         /\ DepositAdmitted(u, Num(10000000))
         /\ DepositOutcome(u, Num(10000000), cs, "state", p).err = "InvalidAmount"

\* The fields of a WithdrawalRequest that a terminal state fixes
SameRequest(r1, r2) ==
    /\ r1.completed = r2.completed /\ r1.cancelled = r2.cancelled
    /\ r1.amount = r2.amount /\ r1.unlock_time = r2.unlock_time

\* C19 (as claimed): terminal states are absorbing.  On a request that is
\* completed or cancelled, completed and cancelled are not both set, and no
\* RequestWithdrawal, CompleteWithdrawal or CancelWithdrawal addressed to the
\* record changes completed, cancelled, amount or unlock_time.
C19_TerminalAbsorbing ==
    \A q \in RequestAccts :
        (requests[q].is_initialized /\ Terminal(requests[q])) =>
            /\ ~(requests[q].completed /\ requests[q].cancelled)
            /\ \A u \in UserInfos :
                 /\ \A ids \in PointIdLists, ns \in NullifierLists :
                      SameRequest(RequestWithdrawalOutcome(u, ids, ns, "state", q).requests[q],
                                  requests[q])
                 /\ SameRequest(CompleteWithdrawalOutcome(u, "state", q).requests[q],
                                requests[q])
                 /\ \A permanent \in BOOLEAN :
                      SameRequest(CancelWithdrawalOutcome(u, q, permanent).requests[q],
                                  requests[q])

\* C20 (as claimed): no value creation.  In every state total_withdrawn <=
\* total_points * 10_000_000.
C20_NoValueCreation ==
    Leq(protocol_state.total_withdrawn,
        Mul(protocol_state.total_points, Num(10000000)))
====
